---- MODULE Spec2Model ----
(***************************************************************************)
(* Renewal-reminder workflow of the subscription tracker backend.          *)
(*                                                                         *)
(* Time is counted in ticks (TicksPerDay ticks make one day) so that the   *)
(* truncation of dayjs's diff(..., "day") is visible.  A workflow run is   *)
(* the durable state the workflow host keeps for one trigger: the log of   *)
(* completed steps with their cached results.  Every delivery of the       *)
(* callback POST /workflow/send-reminders re-executes the handler from its *)
(* first line against that log: completed steps return their cached        *)
(* result, the first step that is not in the log is executed and recorded, *)
(* and everything outside context.run / context.sleep (dayjs(), the        *)
(* branches) is evaluated again with the current time.                     *)
(***************************************************************************)
EXTENDS Integers, Sequences, FiniteSets, Bags, TLC

\* ---- bounds of the model ------------------------------------------------
TicksPerDay == 2
MaxTime == 18
MaxSubs == 1
MaxRuns == 2
MaxFailures == 1
MaxAhead == 17
MaxLate == 1
MaxDeliveries == 2
MaxSweepSubs == 2

\* ---- program constants --------------------------------------------------
REMINDER_DAYS == <<7, 3, 1>>

Users == {"u1", "u2"}
\* req.user after the authorize middleware: the user of the token, or null
\* when the token verifies and its user record is gone
NoUser == "null"
Callers == Users \cup {NoUser}
Statuses == {"active", "inactive", "canceled"}
RenewalOffsets == {6, MaxAhead}
Deliveries == 1..MaxDeliveries
FailureReasons == {"transient", "permanent"}

VARIABLES now, subs, runs, emails, failures, cancelledAsleep, deletedAsleep,
          inflight, resStatus, session, sweep

vars == <<now, subs, runs, emails, failures, cancelledAsleep, deletedAsleep,
          inflight, resStatus, session, sweep>>

\* the ids the store can hand out
SubIds == DOMAIN subs

\* localStorage.getItem of a key that is not set
NoItem == "null"

\* the browser session of AuthContext: localStorage (token, storedUser), the
\* React state (user, loading), the calls awaiting their response, and, as
\* history, the last sign-in or sign-out that returned with the user state it
\* found
NoSession ==
    [token |-> NoItem, storedUser |-> NoItem, user |-> NoUser, loading |-> TRUE,
     signingIn |-> NoUser, signingOut |-> FALSE, last |-> "none", lastUser |-> NoUser]

\* an execution of processAllSubscriptionReminders followed iteration by
\* iteration: the query result, the position of the loop, the results pushed
NoSweep == [phase |-> "idle", found |-> << >>, next |-> 1, results |-> << >>]

\* ---- storage ------------------------------------------------------------
NoSub == [state |-> "unused", status |-> "none", renewalDate |-> 0, user |-> "none"]

\* Subscription.findById(id).populate("user", ...): the document or null
NoSnap == [present |-> FALSE, status |-> "none", renewalDate |-> 0, user |-> "none"]

findById(s) ==
    IF s \in SubIds /\ subs[s].state = "stored"
    THEN [present |-> TRUE, status |-> subs[s].status,
          renewalDate |-> subs[s].renewalDate, user |-> subs[s].user]
    ELSE NoSnap

\* ---- date arithmetic ----------------------------------------------------
\* dayjs a.diff(b, "day"): whole days, truncated toward zero
diffDays(a, b) ==
    IF a >= b THEN (a - b) \div TicksPerDay ELSE 0 - ((b - a) \div TicksPerDay)

\* REMINDER_DAYS.find(day => day < d); 0 stands for undefined
RECURSIVE findFrom(_, _)
findFrom(i, d) ==
    IF i > Len(REMINDER_DAYS) THEN 0
    ELSE IF REMINDER_DAYS[i] < d THEN REMINDER_DAYS[i]
    ELSE findFrom(i + 1, d)

\* the search written with <= : the day just reported is found again
RECURSIVE findFromInclusive(_, _)
findFromInclusive(i, d) ==
    IF i > Len(REMINDER_DAYS) THEN 0
    ELSE IF REMINDER_DAYS[i] <= d THEN REMINDER_DAYS[i]
    ELSE findFromInclusive(i + 1, d)

nextReminderDayInclusive(d) == findFromInclusive(1, d)

nextReminderDayOf(d) == findFrom(1, d)

\* SubscriptionCard.getDaysUntilRenewal: Math.ceil(diffTime / one day)
getDaysUntilRenewal(renewal, today) ==
    IF renewal >= today THEN (renewal - today + TicksPerDay - 1) \div TicksPerDay
    ELSE 0 - ((today - renewal) \div TicksPerDay)

\* ---- the workflow host's step log ---------------------------------------
\* a host that remembers only the step it completed last
hasStepLastOnly(log, name) == Len(log) > 0 /\ log[Len(log)].name = name

hasStep(log, name) == \E i \in 1..Len(log) : log[i].name = name

stepResult(log, name) ==
    LET i == CHOOSE j \in 1..Len(log) : log[j].name = name IN log[i].res

Instr(op, name, days, dur) == [op |-> op, name |-> name, days |-> days, dur |-> dur]

\* an execution of the handler that has received its request and not yet
\* reached its step: the run and the step it is about to execute
NoDelivery == [run |-> 0, ins |-> Instr("none", "none", 0, 0)]

\* ---- sendReminders: the next instruction of one execution ---------------
\* scenario A reporting a fixed offset in its second reminder, whatever is
\* left when the run resumes
scenarioAFixedLabel(log, d) ==
    IF ~hasStep(log, "send-reminder-email")
    THEN Instr("send", "send-reminder-email", d, 0)
    ELSE IF d > 1
    THEN LET nextReminderDay == nextReminderDayOf(d) IN
         IF nextReminderDay # 0
         THEN IF ~hasStep(log, "wait-for-next-reminder")
              THEN Instr("sleep", "wait-for-next-reminder", 0, d - nextReminderDay)
              ELSE IF ~hasStep(log, "send-next-reminder-email")
              THEN Instr("send", "send-next-reminder-email", REMINDER_DAYS[2], 0)
              ELSE Instr("return", "reminder-sent", 0, 0)
         ELSE Instr("return", "reminder-sent", 0, 0)
    ELSE Instr("return", "reminder-sent", 0, 0)

\* scenario A with the subtraction of daysToWait the wrong way round
scenarioANegativeWait(log, d) ==
    IF ~hasStep(log, "send-reminder-email")
    THEN Instr("send", "send-reminder-email", d, 0)
    ELSE IF d > 1
    THEN LET nextReminderDay == nextReminderDayOf(d) IN
         IF nextReminderDay # 0
         THEN IF ~hasStep(log, "wait-for-next-reminder")
              THEN Instr("sleep", "wait-for-next-reminder", 0, nextReminderDay - d)
              ELSE IF ~hasStep(log, "send-next-reminder-email")
              THEN Instr("send", "send-next-reminder-email", nextReminderDay, 0)
              ELSE Instr("return", "reminder-sent", 0, 0)
         ELSE Instr("return", "reminder-sent", 0, 0)
    ELSE Instr("return", "reminder-sent", 0, 0)

scenarioA(log, d) ==
    IF ~hasStep(log, "send-reminder-email")
    THEN Instr("send", "send-reminder-email", d, 0)
    ELSE IF d > 1
    THEN LET nextReminderDay == nextReminderDayOf(d) IN
         IF nextReminderDay # 0
         THEN IF ~hasStep(log, "wait-for-next-reminder")
              THEN Instr("sleep", "wait-for-next-reminder", 0, d - nextReminderDay)
              ELSE IF ~hasStep(log, "send-next-reminder-email")
              THEN Instr("send", "send-next-reminder-email", nextReminderDay, 0)
              ELSE Instr("return", "reminder-sent", 0, 0)
         ELSE Instr("return", "reminder-sent", 0, 0)
    ELSE Instr("return", "reminder-sent", 0, 0)

\* scenario B sleeping all the days left instead of the days to the window
scenarioBSleepsToRenewal(log, d) ==
    IF ~hasStep(log, "wait-until-reminder-window")
    THEN Instr("sleep", "wait-until-reminder-window", 0, d)
    ELSE IF ~hasStep(log, "re-fetch-subscription")
    THEN Instr("run", "re-fetch-subscription", 0, 0)
    ELSE LET updatedSubscription == stepResult(log, "re-fetch-subscription") IN
         IF updatedSubscription.present /\ updatedSubscription.status = "active"
         THEN IF ~hasStep(log, "send-first-reminder-email")
              THEN Instr("send", "send-first-reminder-email", REMINDER_DAYS[1], 0)
              ELSE Instr("return", "reminder-scheduled", 0, 0)
         ELSE Instr("return", "reminder-scheduled", 0, 0)

scenarioB(log, d) ==
    IF ~hasStep(log, "wait-until-reminder-window")
    THEN Instr("sleep", "wait-until-reminder-window", 0, d - REMINDER_DAYS[1])
    ELSE IF ~hasStep(log, "re-fetch-subscription")
    THEN Instr("run", "re-fetch-subscription", 0, 0)
    ELSE LET updatedSubscription == stepResult(log, "re-fetch-subscription") IN
         IF updatedSubscription.present /\ updatedSubscription.status = "active"
         THEN IF ~hasStep(log, "send-first-reminder-email")
              THEN Instr("send", "send-first-reminder-email", REMINDER_DAYS[1], 0)
              ELSE Instr("return", "reminder-scheduled", 0, 0)
         ELSE Instr("return", "reminder-scheduled", 0, 0)

\* the handler without its "renewal date has passed" return
renewalNeverPassed(subscription, today) == FALSE

renewalPassed(subscription, today) == subscription.renewalDate < today

\* the handler without its "not active" return
neverNotActive(subscription) == FALSE

notActive(subscription) == subscription.status # "active"

sendReminders(log, today) ==
    IF ~hasStep(log, "get-subscription")
    THEN Instr("run", "get-subscription", 0, 0)
    ELSE LET subscription == stepResult(log, "get-subscription") IN
         IF ~subscription.present
         THEN Instr("return", "not-found", 0, 0)
         ELSE IF notActive(subscription)
         THEN Instr("return", "not-active", 0, 0)
         ELSE IF renewalPassed(subscription, today)
         THEN Instr("return", "renewal-passed", 0, 0)
         ELSE LET daysUntilRenewal == diffDays(subscription.renewalDate, today) IN
              IF daysUntilRenewal <= REMINDER_DAYS[1]
              THEN scenarioA(log, daysUntilRenewal)
              ELSE scenarioB(log, daysUntilRenewal)

\* ---- initial state ------------------------------------------------------
Init ==
    /\ now = 0
    /\ subs = [s \in 1..MaxSubs |-> NoSub]
    /\ runs = << >>
    /\ emails = EmptyBag
    /\ failures = 0
    /\ cancelledAsleep = {}
    /\ deletedAsleep = {}
    /\ inflight = [k \in Deliveries |-> NoDelivery]
    /\ resStatus = 0
    /\ session = NoSession
    /\ sweep = NoSweep

\* ---- scheduleReminderWorkflow -------------------------------------------
newRun(s) == [sub |-> s, log |-> << >>, state |-> "pending", wakeAt |-> 0,
              result |-> "none"]

\* upstashWorkflowClient.trigger: every successful call starts a new run
scheduleReminderWorkflow(rs, s) == Append(rs, newRun(s))

\* ---- the clock ----------------------------------------------------------
\* now counts the ticks since the first subscription was stored.  A delivery
\* the host has queued is made within the tick; a wake-up may be late by up
\* to MaxLate ticks.
Tick ==
    /\ now < MaxTime
    /\ \E s \in SubIds : subs[s].state # "unused"
    /\ \A r \in 1..Len(runs) : runs[r].state # "pending"
    /\ \A r \in 1..Len(runs) : runs[r].state = "sleeping" => now < runs[r].wakeAt + MaxLate
    /\ now' = now + 1
    /\ UNCHANGED <<subs, runs, emails, failures, cancelledAsleep, deletedAsleep, inflight, resStatus, session, sweep>>

\* ---- subscription controllers ------------------------------------------
\* history: the runs of s that are asleep at this instant, each with the sleep
\* it is in.  cancelledAsleep and deletedAsleep hold the runs, not yet ended,
\* whose subscription was cancelled, or removed, while they slept
sleepingRunsOf(s) ==
    {[run |-> r, sleep |-> runs[r].log[Len(runs[r].log)].name] :
        r \in {x \in 1..Len(runs) : runs[x].sub = s /\ runs[x].state = "sleeping"}}

nextId == CHOOSE s \in SubIds : subs[s].state = "unused" /\ \A t \in SubIds : t < s => subs[t].state # "unused"

\* createSubscription without the try/catch around the scheduling call: the
\* error reaches the outer catch, which answers 500
createSubscriptionNoCatch(u, off, st, ok) ==
    /\ \E s \in SubIds : subs[s].state = "unused"
    /\ now + off >= 0
    /\ IF u = NoUser
       THEN /\ resStatus' = 401
            /\ UNCHANGED <<subs, runs>>
       ELSE /\ ok => Len(runs) < MaxRuns
            /\ LET s == nextId IN
               /\ subs' = [subs EXCEPT ![s] = [state |-> "stored", status |-> st,
                                              renewalDate |-> now + off, user |-> u]]
               /\ runs' = IF ok THEN scheduleReminderWorkflow(runs, s) ELSE runs
            /\ resStatus' = IF ok THEN 201 ELSE 500
    /\ UNCHANGED <<now, emails, failures, cancelledAsleep, deletedAsleep, inflight, session, sweep>>

\* POST /subscriptions: 401 when req.user is null; else store the document,
\* then try to schedule its workflow; a scheduling failure is logged and the
\* request still answers 201.  Requests are followed while the store has a
\* free slot (MaxSubs).
\* resStatus is the status of the response to the last POST /subscriptions
createSubscription(u, off, st, ok) ==
    /\ \E s \in SubIds : subs[s].state = "unused"
    /\ now + off >= 0
    /\ IF u = NoUser
       THEN /\ resStatus' = 401
            /\ UNCHANGED <<subs, runs>>
       ELSE /\ ok => Len(runs) < MaxRuns
            /\ LET s == nextId IN
               /\ subs' = [subs EXCEPT ![s] = [state |-> "stored", status |-> st,
                                              renewalDate |-> now + off, user |-> u]]
               /\ runs' = IF ok THEN scheduleReminderWorkflow(runs, s) ELSE runs
            /\ resStatus' = 201
    /\ UNCHANGED <<now, emails, failures, cancelledAsleep, deletedAsleep, inflight, session, sweep>>

\* the status of the response of DELETE /subscriptions/:subscriptionId
deleteSubscriptionStatus(u, s) ==
    LET subscription == findById(s) IN
    IF u = NoUser THEN 401
    ELSE IF ~subscription.present THEN 404
    ELSE IF subscription.user # u THEN 403
    ELSE 200

\* deleteSubscription without the ownership check
deleteSubscriptionAnyCaller(u, s) ==
    /\ subs[s].state # "unused"
    /\ LET subscription == findById(s) IN
       IF u = NoUser THEN UNCHANGED subs
       ELSE IF ~subscription.present THEN UNCHANGED subs
       ELSE subs' = [subs EXCEPT ![s].state = "deleted"]
    /\ deletedAsleep' = IF subs'[s].state = "deleted" /\ subs[s].state = "stored"
                        THEN deletedAsleep \cup sleepingRunsOf(s) ELSE deletedAsleep
    /\ UNCHANGED <<now, runs, emails, failures, cancelledAsleep, inflight, resStatus, session, sweep>>

\* DELETE /subscriptions/:subscriptionId with req.user = u: 401 when u is
\* null, 404 when absent, 403 when u is not the owner, else the document is
\* removed
deleteSubscription(u, s) ==
    /\ subs[s].state # "unused"
    /\ LET subscription == findById(s) IN
       IF u = NoUser THEN UNCHANGED subs
       ELSE IF ~subscription.present THEN UNCHANGED subs
       ELSE IF subscription.user # u THEN UNCHANGED subs
       ELSE subs' = [subs EXCEPT ![s].state = "deleted"]
    /\ deletedAsleep' = IF subs'[s].state = "deleted" /\ subs[s].state = "stored"
                        THEN deletedAsleep \cup sleepingRunsOf(s) ELSE deletedAsleep
    /\ UNCHANGED <<now, runs, emails, failures, cancelledAsleep, inflight, resStatus, session, sweep>>

\* The status field changes in the store (no handler of the backend writes
\* it after creation): the subscription is cancelled or deactivated
setStatus(s, st) ==
    /\ subs[s].state = "stored"
    /\ subs[s].status = "active"
    /\ st \in {"inactive", "canceled"}
    /\ subs' = [subs EXCEPT ![s].status = st]
    /\ cancelledAsleep' = cancelledAsleep \cup sleepingRunsOf(s)
    /\ UNCHANGED <<now, runs, emails, failures, deletedAsleep, inflight, resStatus, session, sweep>>

\* ---- workflow controllers ----------------------------------------------
\* POST /workflow/trigger/:subscriptionId with req.user = u (the handler
\* never reads req.user): 404 when absent, 500 when the trigger throws, else
\* a workflow is started
triggerReminderManually(u, s, ok) ==
    /\ subs[s].state # "unused"
    /\ LET subscription == findById(s) IN
       IF ~subscription.present THEN UNCHANGED runs
       ELSE IF ~ok THEN UNCHANGED runs
       ELSE /\ Len(runs) < MaxRuns
            /\ runs' = scheduleReminderWorkflow(runs, s)
    /\ UNCHANGED <<now, subs, emails, failures, cancelledAsleep, deletedAsleep, inflight, resStatus, session, sweep>>

\* the query with $lt in place of $lte: a renewal exactly 7 days ahead is left out
dueSubscriptionsExclusive ==
    {s \in SubIds : /\ subs[s].state = "stored"
                    /\ subs[s].status = "active"
                    /\ subs[s].renewalDate >= now
                    /\ subs[s].renewalDate < now + REMINDER_DAYS[1] * TicksPerDay}

\* Subscription.find({status: "active", renewalDate: {$gte: today, $lte: today + 7 days}})
dueSubscriptions ==
    {s \in SubIds : /\ subs[s].state = "stored"
                    /\ subs[s].status = "active"
                    /\ subs[s].renewalDate >= now
                    /\ subs[s].renewalDate <= now + REMINDER_DAYS[1] * TicksPerDay}

RECURSIVE triggerAll(_, _, _)
triggerAll(rs, todo, failing) ==
    IF todo = {} THEN rs
    ELSE LET s == CHOOSE x \in todo : \A y \in todo : x <= y IN
         triggerAll(IF s \in failing THEN rs ELSE scheduleReminderWorkflow(rs, s),
                    todo \ {s}, failing)

\* a sweep that also marks the subscriptions it handled as reminded
processAllMarksSubscriptions(failing) ==
    /\ failing \subseteq dueSubscriptions
    /\ Len(runs) + Cardinality(dueSubscriptions \ failing) <= MaxRuns
    /\ runs' = triggerAll(runs, dueSubscriptions, failing)
    /\ subs' = [s \in SubIds |-> IF s \in dueSubscriptions
                                  THEN [subs[s] EXCEPT !.status = "inactive"]
                                  ELSE subs[s]]
    /\ UNCHANGED <<now, emails, failures, cancelledAsleep, deletedAsleep, inflight, resStatus, session, sweep>>

\* GET /workflow/process-reminders; the triggers of `failing` throw
processAllSubscriptionReminders(failing) ==
    /\ failing \subseteq dueSubscriptions
    /\ Len(runs) + Cardinality(dueSubscriptions \ failing) <= MaxRuns
    /\ runs' = triggerAll(runs, dueSubscriptions, failing)
    /\ UNCHANGED <<now, subs, emails, failures, cancelledAsleep, deletedAsleep, inflight, resStatus, session, sweep>>

activeRun(r) == runs[r].state \in {"pending", "sleeping"}

\* ---- one delivery of POST /workflow/send-reminders for run r ------------
deliverable(r) ==
    \/ runs[r].state = "pending"
    \/ runs[r].state = "sleeping" /\ now >= runs[r].wakeAt

logEntry(name, res, wakeAt) == [name |-> name, res |-> res, wakeAt |-> wakeAt]

\* the call the email dispatcher receives
email(r, ins) == [run |-> r, sub |-> runs[r].sub, step |-> ins.name, days |-> ins.days]

Invoke(r) ==
    /\ r \in 1..Len(runs)
    /\ deliverable(r)
    /\ LET ins == sendReminders(runs[r].log, now) IN
       CASE ins.op = "run" ->
              /\ runs' = [runs EXCEPT ![r].log = Append(@, logEntry(ins.name, findById(runs[r].sub), 0)),
                                      ![r].state = "pending"]
              /\ UNCHANGED emails
         [] ins.op = "send" ->
              /\ emails' = emails (+) SetToBag({email(r, ins)})
              /\ runs' = [runs EXCEPT ![r].log = Append(@, logEntry(ins.name, NoSnap, 0)),
                                      ![r].state = "pending"]
         [] ins.op = "sleep" ->
              /\ runs' = [runs EXCEPT ![r].log = Append(@, logEntry(ins.name, NoSnap, now + ins.dur * TicksPerDay)),
                                      ![r].state = "sleeping",
                                      ![r].wakeAt = now + ins.dur * TicksPerDay]
              /\ UNCHANGED emails
         [] ins.op = "return" ->
              /\ runs' = [runs EXCEPT ![r].state = "completed", ![r].result = ins.name]
              /\ UNCHANGED emails
    /\ cancelledAsleep' = {x \in cancelledAsleep : activeRun(x.run)'}
    /\ deletedAsleep' = {x \in deletedAsleep : activeRun(x.run)'}
    /\ UNCHANGED <<now, subs, failures, inflight, resStatus, session, sweep>>

\* the position of each step in the handler's own sequence of context calls
stepIndex(name) ==
    CASE name = "get-subscription" -> 1
      [] name \in {"send-reminder-email", "wait-until-reminder-window"} -> 2
      [] name \in {"wait-for-next-reminder", "re-fetch-subscription"} -> 3
      [] OTHER -> 4

\* the execution asks for its k-th step under a name the log does not hold,
\* although the log already has a k-th entry: the replay has left the path
\* the log recorded
offRecordedPath(log, ins) ==
    ins.op \in {"run", "send", "sleep"} /\ Len(log) >= stepIndex(ins.name)

\* What the host does with such an execution is not fixed by the handler:
\* Invoke lets it run the step as a new one, InvokeRejected lets the host
\* refuse the replay and fail the run
InvokeRejected(r) ==
    /\ r \in 1..Len(runs)
    /\ deliverable(r)
    /\ offRecordedPath(runs[r].log, sendReminders(runs[r].log, now))
    /\ runs' = [runs EXCEPT ![r].state = "failed", ![r].result = "step-mismatch"]
    /\ cancelledAsleep' = {x \in cancelledAsleep : x.run # r}
    /\ deletedAsleep' = {x \in deletedAsleep : x.run # r}
    /\ UNCHANGED <<now, subs, emails, failures, inflight, resStatus, session, sweep>>

\* a failing send whose retry starts the run over: the step log is dropped
InvokeSendFailsLosesLog(r, reason) ==
    /\ r \in 1..Len(runs)
    /\ deliverable(r)
    /\ failures < MaxFailures
    /\ reason \in FailureReasons
    /\ sendReminders(runs[r].log, now).op = "send"
    /\ failures' = failures + 1
    /\ runs' = [runs EXCEPT ![r].state = "pending", ![r].log = << >>]
    /\ UNCHANGED <<now, subs, emails, cancelledAsleep, deletedAsleep, inflight, resStatus, session, sweep>>

\* the delivery reaches a send step and sendEmail throws, for a transient or
\* a permanent reason: the error is logged and thrown again as it is, the
\* step is not recorded and the host delivers again later
InvokeSendFails(r, reason) ==
    /\ r \in 1..Len(runs)
    /\ deliverable(r)
    /\ failures < MaxFailures
    /\ reason \in FailureReasons
    /\ sendReminders(runs[r].log, now).op = "send"
    /\ failures' = failures + 1
    /\ runs' = [runs EXCEPT ![r].state = "pending"]
    /\ UNCHANGED <<now, subs, emails, cancelledAsleep, deletedAsleep, inflight, resStatus, session, sweep>>

Next ==
    \/ Tick
    \/ \E u \in Callers, off \in RenewalOffsets, ok \in BOOLEAN :
          createSubscription(u, off, "active", ok)
    \/ \E u \in Callers, s \in SubIds : deleteSubscription(u, s)
    \/ \E s \in SubIds, st \in Statuses : setStatus(s, st)
    \/ \E failing \in SUBSET SubIds : processAllSubscriptionReminders(failing)
    \/ \E u \in Callers, s \in SubIds, ok \in BOOLEAN : triggerReminderManually(u, s, ok)
    \/ \E r \in 1..MaxRuns : Invoke(r)
    \/ \E r \in 1..MaxRuns, reason \in FailureReasons : InvokeSendFails(r, reason)
    \/ \E r \in 1..MaxRuns : InvokeRejected(r)

Spec == Init /\ [][Next]_vars

\* ---- overlapping deliveries of POST /workflow/send-reminders -------------
\* The callback is an ordinary route: every request is handled on its own,
\* from the step log the request carries, and nothing in the handler looks
\* for another execution of the same run.  A delivery is received (the
\* handler replays the log and reaches its next step) and, later, performs
\* that step; deliveries are at least once, so two may be under way together.
ReceiveDelivery(k, r) ==
    /\ r \in 1..Len(runs)
    /\ deliverable(r)
    /\ inflight[k] = NoDelivery
    /\ \A j \in Deliveries : j < k => inflight[j] # NoDelivery
    /\ inflight' = [inflight EXCEPT ![k] = [run |-> r, ins |-> sendReminders(runs[r].log, now)]]
    /\ UNCHANGED <<now, subs, runs, emails, failures, cancelledAsleep, deletedAsleep, resStatus, session, sweep>>

\* the host keeps one result per step: a step already recorded is not
\* recorded again, but the handler's own effect (the e-mail) has happened
PerformStep(k) ==
    /\ inflight[k] # NoDelivery
    /\ LET r == inflight[k].run
           ins == inflight[k].ins
           recorded == hasStep(runs[r].log, ins.name) IN
       CASE ins.op = "run" ->
              /\ runs' = IF recorded THEN runs
                         ELSE [runs EXCEPT ![r].log = Append(@, logEntry(ins.name, findById(runs[r].sub), 0)),
                                           ![r].state = "pending"]
              /\ UNCHANGED emails
         [] ins.op = "send" ->
              /\ emails' = emails (+) SetToBag({email(r, ins)})
              /\ runs' = IF recorded THEN runs
                         ELSE [runs EXCEPT ![r].log = Append(@, logEntry(ins.name, NoSnap, 0)),
                                           ![r].state = "pending"]
         [] ins.op = "sleep" ->
              /\ runs' = IF recorded THEN runs
                         ELSE [runs EXCEPT ![r].log = Append(@, logEntry(ins.name, NoSnap, now + ins.dur * TicksPerDay)),
                                           ![r].state = "sleeping",
                                           ![r].wakeAt = now + ins.dur * TicksPerDay]
              /\ UNCHANGED emails
         [] ins.op = "return" ->
              /\ runs' = [runs EXCEPT ![r].state = "completed", ![r].result = ins.name]
              /\ UNCHANGED emails
    /\ inflight' = [inflight EXCEPT ![k] = NoDelivery]
    /\ cancelledAsleep' = {x \in cancelledAsleep : activeRun(x.run)'}
    /\ deletedAsleep' = {x \in deletedAsleep : activeRun(x.run)'}
    /\ UNCHANGED <<now, subs, failures, resStatus, session, sweep>>

NextOverlap ==
    \/ Tick
    \/ \E u \in Users, off \in RenewalOffsets, ok \in BOOLEAN :
          createSubscription(u, off, "active", ok)
    \/ \E k \in Deliveries, r \in 1..MaxRuns : ReceiveDelivery(k, r)
    \/ \E k \in Deliveries : PerformStep(k)

SpecOverlap == Init /\ [][NextOverlap]_vars

\* ---- the sweep, one iteration of its loop at a time ----------------------
\* the documents of a query in the order the loop visits them
RECURSIVE inOrder(_)
inOrder(S) ==
    IF S = {} THEN << >>
    ELSE LET s == CHOOSE x \in S : \A y \in S : x <= y IN <<s>> \o inOrder(S \ {s})

InitSweep ==
    /\ now = 0
    /\ subs = [s \in 1..MaxSweepSubs |-> NoSub]
    /\ runs = << >>
    /\ emails = EmptyBag
    /\ failures = 0
    /\ cancelledAsleep = {}
    /\ deletedAsleep = {}
    /\ inflight = [k \in Deliveries |-> NoDelivery]
    /\ resStatus = 0
    /\ session = NoSession
    /\ sweep = NoSweep

\* the query of processAllSubscriptionReminders
sweepBegin ==
    /\ sweep.phase # "triggering"
    /\ sweep' = [phase |-> "triggering", found |-> inOrder(dueSubscriptions),
                 next |-> 1, results |-> << >>]
    /\ UNCHANGED <<now, subs, runs, emails, failures, cancelledAsleep, deletedAsleep,
                   inflight, resStatus, session>>

\* an iteration in which a failed trigger leaves the loop
sweepTriggerAborts(ok) ==
    /\ sweep.phase = "triggering"
    /\ sweep.next <= Len(sweep.found)
    /\ ok => Len(runs) < MaxRuns
    /\ LET subscription == sweep.found[sweep.next] IN
       IF ok
       THEN /\ runs' = scheduleReminderWorkflow(runs, subscription)
            /\ sweep' = [sweep EXCEPT !.next = @ + 1,
                            !.results = Append(@, [subscriptionId |-> subscription,
                                                   status |-> "scheduled"])]
       ELSE /\ runs' = runs
            /\ sweep' = [sweep EXCEPT !.next = Len(sweep.found) + 1]
    /\ UNCHANGED <<now, subs, emails, failures, cancelledAsleep, deletedAsleep,
                   inflight, resStatus, session>>

\* one iteration of the loop: trigger the workflow of the next subscription
\* and push its result; a trigger that throws is caught inside the loop
sweepTrigger(ok) ==
    /\ sweep.phase = "triggering"
    /\ sweep.next <= Len(sweep.found)
    /\ ok => Len(runs) < MaxRuns
    /\ LET subscription == sweep.found[sweep.next] IN
       /\ runs' = IF ok THEN scheduleReminderWorkflow(runs, subscription) ELSE runs
       /\ sweep' = [sweep EXCEPT !.next = @ + 1,
                       !.results = Append(@, [subscriptionId |-> subscription,
                                              status |-> IF ok THEN "scheduled"
                                                               ELSE "failed"])]
    /\ UNCHANGED <<now, subs, emails, failures, cancelledAsleep, deletedAsleep,
                   inflight, resStatus, session>>

\* the loop is over: the response carries the results
sweepRespond ==
    /\ sweep.phase = "triggering"
    /\ sweep.next > Len(sweep.found)
    /\ sweep' = [sweep EXCEPT !.phase = "responded"]
    /\ UNCHANGED <<now, subs, runs, emails, failures, cancelledAsleep, deletedAsleep,
                   inflight, resStatus, session>>

NextSweep ==
    \/ Tick
    \/ \E u \in Users, off \in RenewalOffsets, ok \in BOOLEAN :
          createSubscription(u, off, "active", ok)
    \/ sweepBegin
    \/ \E ok \in BOOLEAN : sweepTrigger(ok)
    \/ sweepRespond

SpecSweep == InitSweep /\ [][NextSweep]_vars

\* ---- AuthContext (frontend) -----------------------------------------------
isAuthenticated == session.user # NoUser

\* a page load: the React state starts over, localStorage stays, the calls
\* of the page that was left are dropped
reload ==
    /\ session.loading = FALSE
    /\ session' = [session EXCEPT !.user = NoUser, !.loading = TRUE,
                                  !.signingIn = NoUser, !.signingOut = FALSE]
    /\ UNCHANGED <<now, subs, runs, emails, failures, cancelledAsleep, deletedAsleep,
                   inflight, resStatus, sweep>>

\* the effect run once on mount: restore the user when both items are stored
mount ==
    /\ session.loading = TRUE
    /\ session' = [session EXCEPT
                      !.user = IF session.storedUser # NoItem /\ session.token # NoItem
                               THEN session.storedUser ELSE @,
                      !.loading = FALSE]
    /\ UNCHANGED <<now, subs, runs, emails, failures, cancelledAsleep, deletedAsleep,
                   inflight, resStatus, sweep>>

\* signIn up to its await
signInCall(u) ==
    /\ session.signingIn = NoUser
    /\ session' = [session EXCEPT !.signingIn = u]
    /\ UNCHANGED <<now, subs, runs, emails, failures, cancelledAsleep, deletedAsleep,
                   inflight, resStatus, sweep>>

\* signIn after its await: a response with a token is stored; a rejected
\* call throws and nothing is stored
signInReturn(ok) ==
    /\ session.signingIn # NoUser
    /\ session' = IF ok
                  THEN [session EXCEPT !.token = session.signingIn,
                                       !.storedUser = session.signingIn,
                                       !.user = session.signingIn,
                                       !.signingIn = NoUser, !.last = "signIn",
                                       !.lastUser = session.user]
                  ELSE [session EXCEPT !.signingIn = NoUser, !.last = "signInFailed",
                                       !.lastUser = session.user]
    /\ UNCHANGED <<now, subs, runs, emails, failures, cancelledAsleep, deletedAsleep,
                   inflight, resStatus, sweep>>

\* signOut up to its await
signOutCall ==
    /\ ~session.signingOut
    /\ session' = [session EXCEPT !.signingOut = TRUE]
    /\ UNCHANGED <<now, subs, runs, emails, failures, cancelledAsleep, deletedAsleep,
                   inflight, resStatus, sweep>>

\* signOut that clears the session only when the backend call succeeded
signOutReturnKeepsOnFailure(ok) ==
    /\ session.signingOut
    /\ session' = IF ok
                  THEN [session EXCEPT !.token = NoItem, !.storedUser = NoItem,
                                       !.user = NoUser, !.signingOut = FALSE,
                                       !.last = "signOut",
                                       !.lastUser = session.user]
                  ELSE [session EXCEPT !.signingOut = FALSE, !.last = "signOutFailed",
                                       !.lastUser = session.user]
    /\ UNCHANGED <<now, subs, runs, emails, failures, cancelledAsleep, deletedAsleep,
                   inflight, resStatus, sweep>>

\* signOut after its await: the error of a failed call is logged, and the
\* finally block clears localStorage and the user state either way
signOutReturn(ok) ==
    /\ session.signingOut
    /\ session' = [session EXCEPT !.token = NoItem, !.storedUser = NoItem,
                                  !.user = NoUser, !.signingOut = FALSE,
                                  !.last = IF ok THEN "signOut" ELSE "signOutFailed",
                                  !.lastUser = session.user]
    /\ UNCHANGED <<now, subs, runs, emails, failures, cancelledAsleep, deletedAsleep,
                   inflight, resStatus, sweep>>

\* the response interceptor on a 401 of a route outside /auth/: both items
\* are removed and the browser is sent to /login
unauthorized ==
    /\ session.loading = FALSE
    /\ session.token # NoItem
    /\ session' = [session EXCEPT !.token = NoItem, !.storedUser = NoItem,
                                  !.user = NoUser, !.loading = TRUE,
                                  !.signingIn = NoUser, !.signingOut = FALSE]
    /\ UNCHANGED <<now, subs, runs, emails, failures, cancelledAsleep, deletedAsleep,
                   inflight, resStatus, sweep>>

NextSession ==
    \/ reload
    \/ mount
    \/ \E u \in Users : signInCall(u)
    \/ \E ok \in BOOLEAN : signInReturn(ok)
    \/ signOutCall
    \/ \E ok \in BOOLEAN : signOutReturn(ok)
    \/ unauthorized

SpecSession == Init /\ [][NextSession]_vars

\* ---- vocabulary of the properties ---------------------------------------
RunIds == 1..Len(runs)

SendSteps == {"send-reminder-email", "send-next-reminder-email", "send-first-reminder-email"}

SleepSteps == {"wait-for-next-reminder", "wait-until-reminder-window"}

\* the calls the dispatcher received from run r, and how many
callsOf(r) == {e \in BagToSet(emails) : e.run = r}

emailsOf(r) == BagCardinality([e \in callsOf(r) |-> emails[e]])

sentDays(r) == {e.days : e \in callsOf(r)}

cachedSubscription(r) == stepResult(runs[r].log, "get-subscription")

\* C1: the dispatcher receives at most one call per (subscriptionId, offset)
\* pair, however many times the workflow of that subscription is invoked.
C1_OneEmailPerCheckpoint ==
    \A e1 \in BagToSet(emails), e2 \in BagToSet(emails) :
        (e1.sub = e2.sub /\ e1.days = e2.days) => (e1 = e2 /\ emails[e1] = 1)

\* C2: at every moment at most one workflow run per subscription is active
\* (pending or sleeping).
C2_AtMostOneActiveRun ==
    \A r1 \in RunIds, r2 \in RunIds :
        (activeRun(r1) /\ activeRun(r2) /\ runs[r1].sub = runs[r2].sub) => r1 = r2

\* C3: a run whose subscription was set to canceled or inactive while the run
\* slept between two reminders (in wait-for-next-reminder) sends no further
\* email once it wakes.
C3_CancelledAsleepSendsNothing ==
    [][\A x \in cancelledAsleep :
         x.sleep = "wait-for-next-reminder" => emailsOf(x.run)' = emailsOf(x.run)]_vars

\* C4: a completed run of a subscription that stayed active, with no failed
\* send, whose first reminder reported d days has sent a reminder for every
\* offset of REMINDER_DAYS that is <= d.
C4_AllCheckpointsSent ==
    \A r \in RunIds :
        ( /\ runs[r].state = "completed"
          /\ failures = 0
          /\ subs[runs[r].sub].state = "stored"
          /\ subs[runs[r].sub].status = "active" )
        => \A e \in callsOf(r) :
              e.step = "send-reminder-email" =>
                 \A i \in 1..Len(REMINDER_DAYS) :
                    REMINDER_DAYS[i] <= e.days => REMINDER_DAYS[i] \in sentDays(r)

\* C5: within one run the reminders are sent in strictly decreasing order of
\* the days they report, and a completed sleep lies between every two sends.
daysOfStep(r, name) == (CHOOSE e \in callsOf(r) : e.step = name).days

C5_SendsOrderedAndSeparated ==
    \A r \in RunIds :
        LET log == runs[r].log IN
        \A i \in 1..Len(log), j \in 1..Len(log) :
            (i < j /\ log[i].name \in SendSteps /\ log[j].name \in SendSteps) =>
                /\ daysOfStep(r, log[i].name) > daysOfStep(r, log[j].name)
                /\ \E k \in (i + 1)..(j - 1) : log[k].name \in SleepSteps

C5_TwoSendsHappened ==
    \E r \in RunIds : /\ hasStep(runs[r].log, "send-reminder-email")
                      /\ hasStep(runs[r].log, "send-next-reminder-email")
                      /\ emailsOf(r) = 2

\* C6: a sweep made when every due subscription already has an active run
\* (as after a first sweep) starts no new run.
everyDueHasActiveRun ==
    \A s \in dueSubscriptions : \E r \in RunIds : runs[r].sub = s /\ activeRun(r)

C6_ReconcileIdempotent ==
    [][((\E failing \in SUBSET SubIds : processAllSubscriptionReminders(failing))
         /\ everyDueHasActiveRun) => runs' = runs]_vars

\* C7: a step recorded as complete is never executed again: no step name
\* occurs twice in a run's log, and every send step of the log made exactly
\* one call to the dispatcher.
C7_NoStepReExecuted ==
    \A r \in RunIds :
        LET log == runs[r].log IN
        /\ \A i \in 1..Len(log), j \in 1..Len(log) : log[i].name = log[j].name => i = j
        /\ \A e \in callsOf(r) : emails[e] = 1 /\ hasStep(log, e.step)
        /\ emailsOf(r) = Cardinality({i \in 1..Len(log) : log[i].name \in SendSteps})

C7_ResumedPastTheSend ==
    \E r \in RunIds : /\ Len(runs[r].log) >= 3
                      /\ runs[r].log[2].name = "send-reminder-email"
                      /\ runs[r].log[3].name = "wait-for-next-reminder"
                      /\ emailsOf(r) = 1

C9_AbsentOrInactiveSkips ==
    \A r \in RunIds :
        ( /\ hasStep(runs[r].log, "get-subscription")
          /\ (~cachedSubscription(r).present \/ cachedSubscription(r).status # "active") )
        => /\ Len(runs[r].log) = 1
           /\ emailsOf(r) = 0
           /\ runs[r].state \in {"pending", "completed"}
           /\ runs[r].state = "completed" => runs[r].result \in {"not-found", "not-active"}

C9_BothSkipsSeen ==
    /\ \E r \in RunIds : runs[r].state = "completed" /\ runs[r].result = "not-found"
    /\ \E r \in RunIds : runs[r].state = "completed" /\ runs[r].result = "not-active"

\* C10: a run whose subscription was deleted while the run slept, in either
\* of its sleeps, sends no further email once it wakes.
C10_DeletedAsleepSendsNothing ==
    [][\A x \in deletedAsleep : emailsOf(x.run)' = emailsOf(x.run)]_vars

\* ---- vocabulary of the later properties ---------------------------------
\* the calls the dispatcher receives in the step
newCalls == {e \in BagToSet(emails') : CopiesIn(e, emails') > CopiesIn(e, emails)}

\* daysUntilRenewal as an execution of run r computes it at this instant
daysUntilRenewalAt(r) == diffDays(cachedSubscription(r).renewalDate, now)

Offsets == {REMINDER_DAYS[i] : i \in 1..Len(REMINDER_DAYS)}

largestOffsetAtMost(d) ==
    CHOOSE o \in Offsets : o <= d /\ \A p \in Offsets : p <= d => p <= o

largestOffsetBelow(d) ==
    IF \E o \in Offsets : o < d
    THEN CHOOSE o \in Offsets : o < d /\ \A p \in Offsets : p < d => p <= o
    ELSE 0

lastStep(r) == runs[r].log[Len(runs[r].log)]

\* C11: with 0 < d <= 7 days left, the reminder sent at once is the one of the
\* largest offset of REMINDER_DAYS that is <= d, and the sleep that follows
\* it lasts the gap from that offset to the next smaller one.
C11_DueNowIsLargestOffset ==
    [][/\ \A e \in newCalls :
            LET d == daysUntilRenewalAt(e.run) IN
            (e.step = "send-reminder-email" /\ d > 0 /\ d <= REMINDER_DAYS[1])
                => e.days = largestOffsetAtMost(d)
       /\ \A r \in RunIds :
            ( /\ Len(runs'[r].log) = Len(runs[r].log) + 1
              /\ lastStep(r)'.name = "wait-for-next-reminder" )
            => LET due == largestOffsetAtMost(daysOfStep(r, "send-reminder-email")) IN
               runs'[r].wakeAt = now + (due - largestOffsetBelow(due)) * TicksPerDay]_vars

\* C12: with d > 7 days left the execution sends nothing and requests the
\* sleep wait-until-reminder-window of exactly d - 7 days; the run has sent
\* no email before that sleep.
C12_FarRenewalSleepsToWindow ==
    [][\A r \in RunIds :
         ( /\ runs'[r] # runs[r]
           /\ hasStep(runs[r].log, "get-subscription")
           /\ cachedSubscription(r).present
           /\ cachedSubscription(r).status = "active"
           /\ daysUntilRenewalAt(r) > REMINDER_DAYS[1] )
         => /\ emails' = emails
            /\ emailsOf(r) = 0
            /\ runs'[r].state = "sleeping"
            /\ lastStep(r)'.name = "wait-until-reminder-window"
            /\ runs'[r].wakeAt =
                 now + (daysUntilRenewalAt(r) - REMINDER_DAYS[1]) * TicksPerDay]_vars

C12_SleptToWindow ==
    \E r \in RunIds : /\ runs[r].state = "sleeping"
                      /\ Len(runs[r].log) = 2
                      /\ lastStep(r).name = "wait-until-reminder-window"
                      /\ runs[r].wakeAt > now

\* C13: the daysUntilRenewal a reminder reports is the remaining time rounded
\* up to whole days, the value getDaysUntilRenewal gives for the same dates.
C13_DaysUntilIsCeiling ==
    [][\A e \in newCalls :
         e.step = "send-reminder-email" =>
            e.days = getDaysUntilRenewal(cachedSubscription(e.run).renewalDate, now)]_vars

C15_DuplicateWakeUpSendsNothing ==
    \A e \in BagToSet(emails) : emails[e] = 1

\* a step of GET /workflow/process-reminders
sweepStep == \E failing \in SUBSET SubIds : processAllSubscriptionReminders(failing)

\* the subscriptions of the runs started in the step
startedFor == {runs'[i].sub : i \in (Len(runs) + 1)..Len(runs')}

hasActiveRun(s) == \E r \in RunIds : runs[r].sub = s /\ activeRun(r)

\* C16: a manual trigger by an authenticated user who is not the owner of
\* the subscription starts no workflow.
C16_OnlyOwnerTriggers ==
    [][\A u \in Users, s \in SubIds :
         ( /\ triggerReminderManually(u, s, TRUE)
           /\ ~sweepStep
           /\ findById(s).present
           /\ findById(s).user # u )
         => runs' = runs]_vars

\* C17: a sweep starts a workflow for exactly the subscriptions that are
\* active, renew within [now, now + 7 days] and have no active run (those
\* whose trigger call fails excepted), and for no other subscription.
C17_ReconcileTriggersExactlyMissing ==
    [][\A failing \in SUBSET SubIds :
         processAllSubscriptionReminders(failing) =>
            /\ \A s \in startedFor : s \in dueSubscriptions /\ ~hasActiveRun(s)
            /\ \A s \in dueSubscriptions \ failing : ~hasActiveRun(s) => s \in startedFor]_vars

\* C18: a failed send leaves its step incomplete and the run pending at the
\* same send, sends nothing and keeps every step log as it was; and with
\* failed sends in the past no reminder has reached the dispatcher twice.
C18_FailedSendKeepsCompletedSteps ==
    [][/\ failures' # failures =>
            /\ emails' = emails
            /\ Len(runs') = Len(runs)
            /\ \A r \in RunIds : runs'[r].log = runs[r].log
            /\ \E r \in RunIds : /\ runs'[r].state = "pending"
                                  /\ sendReminders(runs'[r].log, now).op = "send"
       /\ failures' > 0 => \A e \in BagToSet(emails') : emails'[e] = 1]_vars

\* the second send of a run has just failed: its first reminder is recorded
C18_SecondSendFailed ==
    \E r \in RunIds : /\ failures > 0
                      /\ runs[r].state = "pending"
                      /\ Len(runs[r].log) = 3
                      /\ lastStep(r).name = "wait-for-next-reminder"
                      /\ emailsOf(r) = 1

\* C19: a send that fails for a permanent reason fails the run, which is not
\* delivered again.
C19_PermanentFailureFailsRun ==
    [][\A r \in RunIds :
         InvokeSendFails(r, "permanent") => runs'[r].state = "failed"]_vars

\* C20: every POST /subscriptions that reaches the store is answered 201 and
\* leaves the subscription stored, also when its workflow could not be
\* scheduled (no run is started by the step).
C20_CreateSurvivesSchedulingFailure ==
    [][\A s \in SubIds :
         (subs[s].state = "unused" /\ subs'[s].state # "unused") =>
            /\ subs'[s].state = "stored"
            /\ resStatus' = 201
            /\ Len(runs') \in {Len(runs), Len(runs) + 1}]_vars

\* a subscription is stored, answered 201, and no workflow was started for it
C20_StoredWithoutWorkflow ==
    \E s \in SubIds : /\ subs[s].state = "stored"
                      /\ resStatus = 201
                      /\ \A r \in RunIds : runs[r].sub # s

\* active, stored, and renewing within [now, now + 7 days]
inReminderWindow(s) ==
    /\ subs[s].state = "stored"
    /\ subs[s].status = "active"
    /\ now <= subs[s].renewalDate
    /\ subs[s].renewalDate <= now + 7 * TicksPerDay

neverHadRun(s) == \A r \in RunIds : runs[r].sub # s

C22_WorkflowNeverMutatesSubscriptions ==
    [][(runs' # runs \/ emails' # emails \/ failures' # failures) =>
          \/ subs' = subs
          \/ \E s \in SubIds : /\ subs[s].state = "unused"
                                /\ subs'[s].state = "stored"
                                /\ \A x \in SubIds \ {s} : subs'[x] = subs[x]]_vars

C22_RunCompletedSubscriptionIntact ==
    \E r \in RunIds : /\ runs[r].state = "completed"
                      /\ emailsOf(r) = 2
                      /\ subs[runs[r].sub].state = "stored"
                      /\ subs[runs[r].sub].status = "active"
                      /\ cachedSubscription(r).renewalDate = subs[runs[r].sub].renewalDate

C24_OnlyAtOffsets ==
    [][\A e \in newCalls :
         e.days \in Offsets /\ e.days = daysUntilRenewalAt(e.run)]_vars

\* C27: whenever a run can be delivered, the execution replays the recorded
\* steps and nothing else: the step it asks for next is the one right after
\* the recorded ones, and it does not return leaving the sleep it was woken
\* from unvisited.
C27_ReplayFollowsLog ==
    \A r \in RunIds :
        deliverable(r) =>
            LET log == runs[r].log
                ins == sendReminders(log, now) IN
            /\ ins.op # "return" => stepIndex(ins.name) = Len(log) + 1
            /\ (ins.op = "return" /\ Len(log) > 0) => lastStep(r).name \notin SleepSteps

\* C28: every sleep a run enters lasts a whole number of days, at least one,
\* and ends no later than the renewal date of the subscription.
C28_SleepsPositiveAndBeforeRenewal ==
    [][\A r \in RunIds :
         ( /\ Len(runs'[r].log) = Len(runs[r].log) + 1
           /\ lastStep(r)'.name \in SleepSteps )
         => /\ runs'[r].wakeAt >= now + TicksPerDay
            /\ (runs'[r].wakeAt - now) % TicksPerDay = 0
            /\ runs'[r].wakeAt <= cachedSubscription(r).renewalDate]_vars

C28_BothSleepsEntered ==
    \E r \in RunIds : /\ hasStep(runs[r].log, "wait-until-reminder-window")
                      /\ hasStep(runs[r].log, "wait-for-next-reminder")

\* C25: a DELETE request removes the subscription only when its caller is the
\* owner and the answer is 200; on every other answer (401, 404, 403) the
\* stored subscriptions are unchanged.
C25_OnlyOwnerDeletes ==
    [][\A u \in Callers, s \in SubIds :
         deleteSubscription(u, s) =>
            IF deleteSubscriptionStatus(u, s) = 200
            THEN /\ u \in Users
                 /\ subs[s].state = "stored"
                 /\ subs[s].user = u
                 /\ subs' = [subs EXCEPT ![s].state = "deleted"]
            ELSE subs' = subs]_vars

C25_OwnerDeleted ==
    \E s \in SubIds : subs[s].state = "deleted" /\ subs[s].user \in Users

\* C30: a manual trigger whose token verifies and whose user record is gone
\* (req.user is null) starts no workflow.
C30_NullUserTriggersNothing ==
    [][\A s \in SubIds, ok \in BOOLEAN :
         (triggerReminderManually(NoUser, s, ok) /\ ~sweepStep) => runs' = runs]_vars

\* C26: once signOut has returned, whether its backend call succeeded or
\* failed, the token and the user are gone from localStorage and the user
\* state is null (isAuthenticated is false), until a sign-in returns.
C26_SignOutAlwaysClears ==
    session.last \in {"signOut", "signOutFailed"} =>
        /\ session.token = NoItem
        /\ session.storedUser = NoItem
        /\ session.user = NoUser
        /\ ~isAuthenticated

C26_ClearedAfterFailedCall ==
    /\ session.last = "signOutFailed"
    /\ session.lastUser \in Users
    /\ session.token = NoItem
    /\ session.storedUser = NoItem
    /\ ~isAuthenticated

\* C29: a sweep pushes one result for the subscription of each iteration,
\* scheduled when a workflow was started for it in that iteration and failed
\* otherwise, and goes on to the next; its response holds exactly one result
\* for each subscription the query returned, in the order of the query.
C29_SweepContinuesAfterFailure ==
    [][/\ Len(sweep'.results) = Len(sweep.results) + 1 =>
            LET result == sweep'.results[Len(sweep'.results)] IN
            /\ result.subscriptionId = sweep.found[sweep.next]
            /\ result.status = IF result.subscriptionId \in startedFor
                               THEN "scheduled" ELSE "failed"
       /\ sweep'.phase = "responded" =>
            /\ Len(sweep'.results) = Len(sweep'.found)
            /\ \A i \in 1..Len(sweep'.found) :
                   sweep'.results[i].subscriptionId = sweep'.found[i]]_vars

C29_SecondScheduledAfterFirstFailed ==
    /\ sweep.phase = "responded"
    /\ Len(sweep.results) = 2
    /\ sweep.results[1].status = "failed"
    /\ sweep.results[2].status = "scheduled"
    /\ \E r \in RunIds : runs[r].sub = sweep.results[2].subscriptionId

====
